---- MODULE Spec2Model ----
(***************************************************************************)
(* Nezha2Mowan: a video -> character-art compressor (nezha.py) and the     *)
(* player of the container it writes (player.py).                          *)
(*                                                                         *)
(* Text is modelled as sequences of one-character strings; the container   *)
(* file is one flat character sequence, split into lines by the player as  *)
(* readlines() does.  A raw frame is modelled at the output of             *)
(* cv2.cvtColor: a matrix of luminance samples in 0..255.  A frame rate is *)
(* the rational num/den that cap.get(CAP_PROP_FPS) reports.                *)
(***************************************************************************)
EXTENDS Integers, Sequences, FiniteSets, TLC

VARIABLES
    pc,          \* position of main()/compress() of nezha.py
    args,        \* the parsed command line: width, height, charset, threads, frames
    self,        \* the VideoAsciiCompressor object: w, h, chars, n_chars
    cap,         \* the cv2.VideoCapture: whether it opened, its FPS and FRAME_COUNT
    fps,         \* compress's local fps, a rational [num, den]
    total,       \* compress's local total
    frames,      \* compress's local frames
    eos,         \* cap.read() returned ret = False
    futures,     \* compress's local futures: state, argument and outcome of each job
    ascii_data,  \* compress's local ascii_data
    wi,          \* how many entries of ascii_data the write loop has written
    out,         \* the output file: whether it exists, and its text
    err,         \* the exception that ended main()'s try block, "" if none
    ppc,         \* position of play_ascii_movie() of player.py
    movie,       \* the player's locals width, height, fps, frames
    pi,          \* the player's loop index i
    pj,          \* the player's loop index j
    rendered,    \* what the player printed: for each frame begun, its rows
    perr,        \* the exception that ended the player, "" if none
    slept,       \* the delays the player's time.sleep calls have waited, in order
    qv,          \* quantizer check: one luminance sample
    qk,          \* quantizer check: a charset size
    qidx         \* quantizer check: the index computed for (qv, qk), -1 before

vars == <<pc, args, self, cap, fps, total, frames, eos, futures, ascii_data, wi, out, err,
          ppc, movie, pi, pj, rendered, perr, slept, qv, qk, qidx>>

compressVars == <<pc, args, self, cap, fps, total, frames, eos, futures, ascii_data, wi, out, err>>
playerVars == <<ppc, movie, pi, pj, rendered, perr, slept>>
quantVars == <<qv, qk, qidx>>

(***************************************************************************)
(* Bounds of the model and constants of the program.                       *)
(***************************************************************************)
MaxFrames == 2
MaxThreads == 2
MaxCharsetSize == 5

MaxFps == 5
MaxLum == 255

Widths == {1, 2}
Heights == {1, 2}
Charsets == { <<>>, <<"#">>, <<" ", "#">>, <<".", "+", "#">> }
Rates == { [num |-> 0, den |-> 1], [num |-> 1, den |-> 2], [num |-> 5, den |-> 2],
           [num |-> 3, den |-> 1], [num |-> 30, den |-> 1] }

\* Frames the source can deliver: luminance planes, and one that makes
\* _process_frame raise.
Black == [ok |-> TRUE, px |-> << <<0, 0>>, <<0, 0>> >>]
Mixed == [ok |-> TRUE, px |-> << <<0, 255>>, <<128, 64>> >>]
Corrupt == [ok |-> FALSE, px |-> << <<0>> >>]
FrameCatalog == {Black, Mixed, Corrupt}

(***************************************************************************)
(* Python text primitives.                                                 *)
(***************************************************************************)
Min(a, b) == IF a <= b THEN a ELSE b
Max(a, b) == IF a >= b THEN a ELSE b

Digits == <<"0", "1", "2", "3", "4", "5", "6", "7", "8", "9">>
Whitespace == {" ", "\t", "\n", "\r"}

RECURSIVE StrNat(_)
StrNat(n) == IF n < 10 THEN <<Digits[n + 1]>>
             ELSE StrNat(n \div 10) \o <<Digits[(n % 10) + 1]>>

\* str(n) of an int, as an f-string formats it
StrInt(n) == IF n < 0 THEN <<"-">> \o StrNat(-n) ELSE StrNat(n)

\* str.strip(): leading and trailing whitespace removed
RECURSIVE LStrip(_)
LStrip(s) == IF s # <<>> /\ Head(s) \in Whitespace THEN LStrip(Tail(s)) ELSE s
RECURSIVE RStrip(_)
RStrip(s) == IF s # <<>> /\ s[Len(s)] \in Whitespace
             THEN RStrip(SubSeq(s, 1, Len(s) - 1)) ELSE s
Strip(s) == RStrip(LStrip(s))

\* str.split(sep) for a one-character separator
RECURSIVE SplitAcc(_, _, _)
SplitAcc(s, sep, cur) ==
    IF s = <<>> THEN <<cur>>
    ELSE IF Head(s) = sep THEN <<cur>> \o SplitAcc(Tail(s), sep, <<>>)
    ELSE SplitAcc(Tail(s), sep, Append(cur, Head(s)))
Split(s, sep) == SplitAcc(s, sep, <<>>)

\* sep.join(parts)
RECURSIVE Join(_, _)
Join(sep, parts) ==
    IF parts = <<>> THEN <<>>
    ELSE IF Len(parts) = 1 THEN parts[1]
    ELSE parts[1] \o sep \o Join(sep, Tail(parts))

\* file.readlines(): the lines of a text, each with its newline
RECURSIVE ReadLinesAcc(_, _)
ReadLinesAcc(s, cur) ==
    IF s = <<>> THEN (IF cur = <<>> THEN <<>> ELSE <<cur>>)
    ELSE IF Head(s) = "\n" THEN <<Append(cur, "\n")>> \o ReadLinesAcc(Tail(s), <<>>)
    ELSE ReadLinesAcc(Tail(s), Append(cur, Head(s)))
ReadLines(s) == ReadLinesAcc(s, <<>>)

DigitValue(c) == CHOOSE d \in 0..9 : Digits[d + 1] = c
RECURSIVE NatValue(_, _)
NatValue(s, acc) == IF s = <<>> THEN acc
                    ELSE NatValue(Tail(s), 10 * acc + DigitValue(Head(s)))

\* int(s): whitespace stripped, an optional sign, then digits only;
\* anything else is a ValueError
ParseInt(s) ==
    LET t == Strip(s)
        signed == t # <<>> /\ Head(t) \in {"+", "-"}
        body == IF signed THEN Tail(t) ELSE t
        isNum == body # <<>> /\ \A i \in 1..Len(body) : body[i] \in {Digits[d] : d \in 1..10}
    IN IF ~isNum THEN [ok |-> FALSE, val |-> 0]
       ELSE [ok |-> TRUE,
             val |-> IF signed /\ Head(t) = "-" THEN -NatValue(body, 0) ELSE NatValue(body, 0)]

\* s[start:end] for 0 <= start <= end
Slice(s, start, end) == SubSeq(s, start + 1, Min(end, Len(s)))

(***************************************************************************)
(* nezha.py: VideoAsciiCompressor._process_frame                           *)
(***************************************************************************)
Clip(x, lo, hi) == Min(Max(x, lo), hi)

\* astype(int) of a quotient: truncation toward zero
TruncDiv(a, b) == IF a >= 0 THEN a \div b ELSE -((-a) \div b)

\* mutant: the luminance range is cut into k buckets instead of k - 1 steps
GlyphIndexBuckets(v, k) == Clip(TruncDiv(v * k, MaxLum + 1), 0, k - 1)

\* the index computed for one luminance sample v with a charset of k glyphs.
\* v * (k - 1) is below 2^24, so the float32 product is exact and the float32
\* quotient truncates to the same integer as the exact quotient.
GlyphIndex(v, k) == Clip(TruncDiv(v * (k - 1), MaxLum), 0, k - 1)

\* cv2.resize(gray, (w, h), interpolation=INTER_NEAREST): sample (y, x) of the
\* result is the source sample at (floor(y * srcH / h), floor(x * srcW / w))
Resize(px, w, h) ==
    [y \in 1..h |->
        [x \in 1..w |->
            px[Min(((y - 1) * Len(px)) \div h, Len(px) - 1) + 1]
              [Min(((x - 1) * Len(px[1])) \div w, Len(px[1]) - 1) + 1]]]

\* char_array[indices] for one index: numpy counts a negative index from the
\* end and raises IndexError outside -k..k-1
GlyphAt(chars, idx) ==
    LET k == Len(chars) IN
    IF idx >= 0 /\ idx < k THEN [ok |-> TRUE, val |-> chars[idx + 1]]
    ELSE IF idx < 0 /\ idx >= -k THEN [ok |-> TRUE, val |-> chars[k + idx + 1]]
    ELSE [ok |-> FALSE, val |-> ""]

\* the rows of glyphs of one frame (ascii_chars), before they are joined
GlyphCells(s, frame) ==
    LET resized == Resize(frame.px, s.w, s.h) IN
    [y \in 1..s.h |-> [x \in 1..s.w |-> GlyphAt(s.chars, GlyphIndex(resized[y][x], s.n_chars))]]

GlyphRows(s, frame) ==
    LET cells == GlyphCells(s, frame) IN
    [y \in 1..s.h |-> [x \in 1..s.w |-> cells[y][x].val]]

\* mutant: the last row is not followed by the delimiter
ProcessFrameNoTrailer(s, frame) ==
    IF ~frame.ok THEN [ok |-> FALSE, val |-> <<>>]
    ELSE LET cells == GlyphCells(s, frame) IN
         IF \E y \in 1..s.h : \E x \in 1..s.w : ~cells[y][x].ok
         THEN [ok |-> FALSE, val |-> <<>>]
         ELSE [ok |-> TRUE, val |-> Join(<<"|">>, GlyphRows(s, frame))]

\* the outcome of _process_frame(frame): the encoded line, or an exception
ProcessFrame(s, frame) ==
    IF ~frame.ok THEN [ok |-> FALSE, val |-> <<>>]
    ELSE LET cells == GlyphCells(s, frame) IN
         IF \E y \in 1..s.h : \E x \in 1..s.w : ~cells[y][x].ok
         THEN [ok |-> FALSE, val |-> <<>>]
         ELSE [ok |-> TRUE, val |-> Join(<<"|">>, GlyphRows(s, frame)) \o <<"|">>]

(***************************************************************************)
(* nezha.py: main and VideoAsciiCompressor.compress                        *)
(***************************************************************************)
NoSelf == [w |-> 0, h |-> 0, chars |-> <<>>, n_chars |-> 0]
NoCap == [opened |-> FALSE, rate |-> [num |-> 0, den |-> 1], frame_count |-> 0,
          delivered |-> <<>>]
NoFile == [exists |-> FALSE, data |-> <<>>]
NoMovie == [width |-> 0, height |-> 0, fps |-> 0, frames |-> <<>>]
NoResult == [ok |-> FALSE, val |-> <<>>]

InitPlayer ==
    /\ ppc = "idle"
    /\ movie = NoMovie
    /\ pi = 0
    /\ pj = 0
    /\ rendered = <<>>
    /\ perr = ""
    /\ slept = <<>>

InitCompress ==
    /\ pc = "new"
    /\ self = NoSelf
    /\ cap = NoCap
    /\ fps = [num |-> 0, den |-> 1]
    /\ total = 0
    /\ frames = <<>>
    /\ eos = FALSE
    /\ futures = <<>>
    /\ ascii_data = <<>>
    /\ wi = 0
    /\ out = NoFile
    /\ err = ""

Init ==
    /\ args \in [width : Widths, height : Heights, charset : Charsets,
                 threads : 0..MaxThreads, frames : -1..MaxFrames]
    /\ InitCompress
    /\ InitPlayer
    /\ qv = 0 /\ qk = 0 /\ qidx = -1

\* mutant: __init__ rejects a charset of fewer than 2 glyphs
ConstructValidating ==
    /\ pc = "new"
    /\ IF Len(args.charset) < 2
       THEN pc' = "failed" /\ err' = "InvalidConfig" /\ self' = self
       ELSE /\ self' = [w |-> args.width, h |-> args.height, chars |-> args.charset,
                        n_chars |-> Len(args.charset)]
            /\ pc' = "constructed"
            /\ err' = err
    /\ UNCHANGED <<args, cap, fps, total, frames, eos, futures, ascii_data, wi, out>>
    /\ UNCHANGED playerVars /\ UNCHANGED quantVars

\* __init__: the arguments are stored, nothing is validated
Construct ==
    /\ pc = "new"
    /\ self' = [w |-> args.width, h |-> args.height, chars |-> args.charset,
                n_chars |-> Len(args.charset)]
    /\ pc' = "constructed"
    /\ UNCHANGED <<args, cap, fps, total, frames, eos, futures, ascii_data, wi, out, err>>
    /\ UNCHANGED playerVars /\ UNCHANGED quantVars

\* cv2.VideoCapture(input_path) opened the source
OpenSource ==
    /\ pc = "constructed"
    /\ \E r \in Rates, fc \in 0..(MaxFrames + 1) :
          cap' = [opened |-> TRUE, rate |-> r, frame_count |-> fc, delivered |-> <<>>]
    /\ pc' = "opened"
    /\ UNCHANGED <<args, self, fps, total, frames, eos, futures, ascii_data, wi, out, err>>
    /\ UNCHANGED playerVars /\ UNCHANGED quantVars

\* cap.isOpened() is false: IOError, caught by main
OpenFails ==
    /\ pc = "constructed"
    /\ pc' = "failed"
    /\ err' = "IOError"
    /\ UNCHANGED <<args, self, cap, fps, total, frames, eos, futures, ascii_data, wi, out>>
    /\ UNCHANGED playerVars /\ UNCHANGED quantVars

\* mutant: the rate is not capped
MinRateUncapped(cap5, r) == r

\* min(5, r) of Python: 5 unless r < 5
MinRate(cap5, r) == IF r.num < cap5 * r.den THEN r ELSE [num |-> cap5, den |-> 1]

\* int(x) of a non-negative rational
IntRate(r) == TruncDiv(r.num, r.den)

\* mutant: the source's frame count is ignored
EffectiveTotalRequested(m, t) == m

EffectiveTotal(m, t) == Min(m, t)

GetInfo ==
    /\ pc = "opened"
    /\ fps' = MinRate(MaxFps, cap.rate)
    /\ total' = EffectiveTotal(args.frames, cap.frame_count)
    /\ pc' = "reading"
    /\ UNCHANGED <<args, self, cap, frames, eos, futures, ascii_data, wi, out, err>>
    /\ UNCHANGED playerVars /\ UNCHANGED quantVars

\* mutant: the frame is put in front of the list
PrependFrame(fs, f) == <<f>> \o fs

\* frames.append(frame)
AppendFrame(fs, f) == Append(fs, f)

\* one pass of the read loop: cap.read() delivers the source's next frame
\* (cap.delivered records the frames the source has handed out, in order)
ReadFrame ==
    /\ pc = "reading"
    /\ Len(frames) < total
    /\ \E f \in FrameCatalog :
          /\ cap' = [cap EXCEPT !.delivered = Append(@, f)]
          /\ frames' = AppendFrame(frames, f)
    /\ UNCHANGED <<pc, args, self, fps, total, eos, futures, ascii_data, wi, out, err>>
    /\ UNCHANGED playerVars /\ UNCHANGED quantVars

\* one pass of the read loop: cap.read() returns ret = False, the loop breaks
ReadEnd ==
    /\ pc = "reading"
    /\ Len(frames) < total
    /\ eos' = TRUE
    /\ pc' = "release"
    /\ UNCHANGED <<args, self, cap, fps, total, frames, futures, ascii_data, wi, out, err>>
    /\ UNCHANGED playerVars /\ UNCHANGED quantVars

\* count reached total: the loop ends
ReadDone ==
    /\ pc = "reading"
    /\ Len(frames) >= total
    /\ pc' = "release"
    /\ UNCHANGED <<args, self, cap, fps, total, frames, eos, futures, ascii_data, wi, out, err>>
    /\ UNCHANGED playerVars /\ UNCHANGED quantVars

\* mutant: cap.release() is left out
ReleaseSkipped ==
    /\ pc = "release"
    /\ pc' = "pool"
    /\ UNCHANGED <<args, self, cap, fps, total, frames, eos, futures, ascii_data, wi, out, err>>
    /\ UNCHANGED playerVars /\ UNCHANGED quantVars

\* cap.release()
Release ==
    /\ pc = "release"
    /\ cap' = [cap EXCEPT !.opened = FALSE]
    /\ pc' = "pool"
    /\ UNCHANGED <<args, self, fps, total, frames, eos, futures, ascii_data, wi, out, err>>
    /\ UNCHANGED playerVars /\ UNCHANGED quantVars

\* mutant: the output file is opened before the executor is created
NewExecutorAfterOpen ==
    /\ pc = "pool"
    /\ out' = [exists |-> TRUE, data |-> <<>>]
    /\ IF args.threads <= 0
       THEN pc' = "failed" /\ err' = "ValueError"
       ELSE pc' = "submit" /\ err' = err
    /\ UNCHANGED <<args, self, cap, fps, total, frames, eos, futures, ascii_data, wi>>
    /\ UNCHANGED playerVars /\ UNCHANGED quantVars

\* ThreadPoolExecutor(max_workers=threads): ValueError unless threads > 0
NewExecutor ==
    /\ pc = "pool"
    /\ IF args.threads <= 0
       THEN pc' = "failed" /\ err' = "ValueError"
       ELSE pc' = "submit" /\ err' = err
    /\ UNCHANGED <<args, self, cap, fps, total, frames, eos, futures, ascii_data, wi, out>>
    /\ UNCHANGED playerVars /\ UNCHANGED quantVars

\* mutant: the frames are submitted last to first
SubmitIndexReversed(n, count) == count - n + 1

\* the frame the n-th submit() of the list comprehension passes (n from 1)
SubmitIndex(n, count) == n

\* futures = [executor.submit(self._process_frame, frame) for frame in frames]
Submit ==
    /\ pc = "submit"
    /\ IF Len(futures) < Len(frames)
       THEN /\ futures' = Append(futures,
                    [state |-> "queued",
                     arg |-> frames[SubmitIndex(Len(futures) + 1, Len(frames))],
                     result |-> NoResult])
            /\ pc' = pc
       ELSE /\ pc' = "collect"
            /\ futures' = futures
    /\ UNCHANGED <<args, self, cap, fps, total, frames, eos, ascii_data, wi, out, err>>
    /\ UNCHANGED playerVars /\ UNCHANGED quantVars

Running == {i \in 1..Len(futures) : futures[i].state = "running"}
Finished(f) == f.state \in {"done", "failed"}

\* mutant: one thread fewer than max_workers is ever used
WorkerFreeOffByOne(running, threads) == running < threads - 1

\* the executor has a thread for one more job: fewer than max_workers are busy
WorkerFree(running, threads) == running < threads

\* a worker thread takes the oldest queued work item; at most max_workers threads
StartJob(i) ==
    /\ pc \in {"submit", "collect", "raising"}
    /\ futures[i].state = "queued"
    /\ \A j \in 1..(i - 1) : futures[j].state # "queued"
    /\ WorkerFree(Cardinality(Running), args.threads)
    /\ futures' = [futures EXCEPT ![i].state = "running"]
    /\ UNCHANGED <<pc, args, self, cap, fps, total, frames, eos, ascii_data, wi, out, err>>
    /\ UNCHANGED playerVars /\ UNCHANGED quantVars

\* the worker's _process_frame call returns or raises; the future is resolved
FinishJob(i) ==
    /\ pc \in {"submit", "collect", "raising"}
    /\ futures[i].state = "running"
    /\ LET r == ProcessFrame(self, futures[i].arg) IN
       futures' = [futures EXCEPT ![i] =
                     [state |-> IF r.ok THEN "done" ELSE "failed", arg |-> @.arg, result |-> r]]
    /\ UNCHANGED <<pc, args, self, cap, fps, total, frames, eos, ascii_data, wi, out, err>>
    /\ UNCHANGED playerVars /\ UNCHANGED quantVars

\* mutant: the collection loop walks the futures last to first
CollectIndexReversed(n, count) == count - n

\* the future the collection loop waits for after n results (n from 0)
CollectIndex(n, count) == n + 1

\* mutant: a failed job yields a placeholder line instead of raising
FutureResultPlaceholder(f) ==
    IF f.result.ok THEN f.result ELSE [ok |-> TRUE, val |-> <<"?">>]

\* future.result() of a finished future: the job's return value, or the
\* job's exception raised again (ok = FALSE)
FutureResult(f) == f.result

\* for future in futures: ascii_data.append(future.result())
Collect ==
    /\ pc = "collect"
    /\ IF Len(ascii_data) < Len(futures)
       THEN LET f == futures[CollectIndex(Len(ascii_data), Len(futures))] IN
            /\ Finished(f)
            /\ IF FutureResult(f).ok
               THEN ascii_data' = Append(ascii_data, FutureResult(f).val) /\ pc' = pc
               ELSE ascii_data' = ascii_data /\ pc' = "raising"
       ELSE pc' = "shutdown" /\ ascii_data' = ascii_data
    /\ UNCHANGED <<args, self, cap, fps, total, frames, eos, futures, wi, out, err>>
    /\ UNCHANGED playerVars /\ UNCHANGED quantVars

\* mutant: the executor is left without waiting for the jobs still running
ExecutorExitNoWait ==
    /\ pc \in {"shutdown", "raising"}
    /\ IF pc = "raising"
       THEN pc' = "failed" /\ err' = "JobError"
       ELSE pc' = "write" /\ err' = err
    /\ UNCHANGED <<args, self, cap, fps, total, frames, eos, futures, ascii_data, wi, out>>
    /\ UNCHANGED playerVars /\ UNCHANGED quantVars

\* leaving "with ThreadPoolExecutor": shutdown(wait=True) returns once every
\* submitted job has run; a pending exception then reaches main's except
ExecutorExit ==
    /\ pc \in {"shutdown", "raising"}
    /\ \A i \in 1..Len(futures) : Finished(futures[i])
    /\ IF pc = "raising"
       THEN pc' = "failed" /\ err' = "JobError"
       ELSE pc' = "write" /\ err' = err
    /\ UNCHANGED <<args, self, cap, fps, total, frames, eos, futures, ascii_data, wi, out>>
    /\ UNCHANGED playerVars /\ UNCHANGED quantVars

\* f"{self.w},{self.h},{int(fps)},{self.chars}\n"
HeaderLine(s, rate) ==
    StrInt(s.w) \o <<",">> \o StrInt(s.h) \o <<",">> \o StrInt(IntRate(rate)) \o <<",">>
        \o s.chars \o <<"\n">>

\* open(output_path, 'w'): the file is created or truncated
WriteOpen ==
    /\ pc = "write"
    /\ out' = [exists |-> TRUE, data |-> <<>>]
    /\ pc' = "header"
    /\ UNCHANGED <<args, self, cap, fps, total, frames, eos, futures, ascii_data, wi, err>>
    /\ UNCHANGED playerVars /\ UNCHANGED quantVars

WriteHeader ==
    /\ pc = "header"
    /\ out' = [out EXCEPT !.data = @ \o HeaderLine(self, fps)]
    /\ pc' = "lines"
    /\ UNCHANGED <<args, self, cap, fps, total, frames, eos, futures, ascii_data, wi, err>>
    /\ UNCHANGED playerVars /\ UNCHANGED quantVars

\* the frame_data the n-th pass of the write loop writes (n from 1)
WriteIndex(n, count) == n

\* for frame_data in ascii_data: f.write(frame_data + "\n"); then the file closes
WriteLine ==
    /\ pc = "lines"
    /\ IF wi < Len(ascii_data)
       THEN /\ out' = [out EXCEPT !.data =
                         @ \o ascii_data[WriteIndex(wi + 1, Len(ascii_data))] \o <<"\n">>]
            /\ wi' = wi + 1
            /\ pc' = pc
       ELSE /\ pc' = "done"
            /\ out' = out
            /\ wi' = wi
    /\ UNCHANGED <<args, self, cap, fps, total, frames, eos, futures, ascii_data, err>>
    /\ UNCHANGED playerVars /\ UNCHANGED quantVars

CompressNext ==
    \/ Construct
    \/ OpenSource
    \/ OpenFails
    \/ GetInfo
    \/ ReadFrame
    \/ ReadEnd
    \/ ReadDone
    \/ Release
    \/ NewExecutor
    \/ Submit
    \/ \E i \in 1..Len(futures) : StartJob(i)
    \/ \E i \in 1..Len(futures) : FinishJob(i)
    \/ Collect
    \/ ExecutorExit
    \/ WriteOpen
    \/ WriteHeader
    \/ WriteLine

(***************************************************************************)
(* player.py: play_ascii_movie                                             *)
(***************************************************************************)
RECURSIVE NonEmptyStripped(_)
\* [line.strip() for line in lines if line.strip()]
NonEmptyStripped(lines) ==
    IF lines = <<>> THEN <<>>
    ELSE LET t == Strip(Head(lines)) IN
         (IF t = <<>> THEN <<>> ELSE <<t>>) \o NonEmptyStripped(Tail(lines))

\* mutant: a first line of fewer than 4 fields is rejected
ParseMovieFourFields(text) ==
    LET lines == ReadLines(text)
        header == Split(Strip(lines[1]), ",")
        wd == ParseInt(header[1])
        ht == ParseInt(header[2])
        rt == ParseInt(header[3])
    IN IF lines = <<>> \/ Len(header) < 4 THEN [error |-> "IndexError", movie |-> NoMovie]
       ELSE IF ~wd.ok \/ ~ht.ok \/ ~rt.ok THEN [error |-> "ValueError", movie |-> NoMovie]
       ELSE IF rt.val = 0 THEN [error |-> "ZeroDivisionError", movie |-> NoMovie]
       ELSE [error |-> "",
             movie |-> [width |-> wd.val, height |-> ht.val, fps |-> rt.val,
                        frames |-> NonEmptyStripped(Tail(lines))]]

\* lines 5-14: the outcome of reading and parsing the container text
ParseMovie(text) ==
    LET lines == ReadLines(text)
        header == Split(Strip(lines[1]), ",")
        wd == ParseInt(header[1])
        ht == ParseInt(header[2])
        rt == ParseInt(header[3])
    IN IF lines = <<>> THEN [error |-> "IndexError", movie |-> NoMovie]
       ELSE IF ~wd.ok THEN [error |-> "ValueError", movie |-> NoMovie]
       ELSE IF Len(header) < 2 THEN [error |-> "IndexError", movie |-> NoMovie]
       ELSE IF ~ht.ok THEN [error |-> "ValueError", movie |-> NoMovie]
       ELSE IF Len(header) < 3 THEN [error |-> "IndexError", movie |-> NoMovie]
       ELSE IF ~rt.ok THEN [error |-> "ValueError", movie |-> NoMovie]
       ELSE IF rt.val = 0 THEN [error |-> "ZeroDivisionError", movie |-> NoMovie]
       ELSE [error |-> "",
             movie |-> [width |-> wd.val, height |-> ht.val, fps |-> rt.val,
                        frames |-> NonEmptyStripped(Tail(lines))]]

\* the player is run on the container compress has written
PlayParse ==
    /\ ppc = "idle"
    /\ pc = "done"
    /\ LET r == ParseMovie(out.data) IN
       IF r.error # ""
       THEN ppc' = "error" /\ perr' = r.error /\ movie' = movie
       ELSE ppc' = "gate" /\ perr' = perr /\ movie' = r.movie
    /\ UNCHANGED <<pi, pj, rendered, slept>>
    /\ UNCHANGED compressVars /\ UNCHANGED quantVars

\* input("...") returns: playback starts
PlayStart ==
    /\ ppc = "gate"
    /\ ppc' = "loop"
    /\ pi' = 0
    /\ UNCHANGED <<movie, pj, rendered, perr, slept>>
    /\ UNCHANGED compressVars /\ UNCHANGED quantVars

\* the next pass of "for i, frame in enumerate(frames)": the screen is cleared
\* and the frame counter printed; or the loop is over
BeginFrame ==
    /\ ppc = "loop"
    /\ IF pi < Len(movie.frames)
       THEN ppc' = "rows" /\ pj' = 0 /\ rendered' = Append(rendered, <<>>)
       ELSE ppc' = "done" /\ pj' = pj /\ rendered' = rendered
    /\ UNCHANGED <<movie, pi, perr, slept>>
    /\ UNCHANGED compressVars /\ UNCHANGED quantVars

\* what pass j of the row loop prints of a frame line: <<row>>, or <<>> when
\* the row starts past the end of the line
RowPrinted(frame, width, j) ==
    LET chars_per_row == width + 1
        start == j * chars_per_row
        end == start + width
    IN IF start < Len(frame) THEN <<Slice(frame, start, end)>> ELSE <<>>

\* one pass of "for j in range(height)", or its end
RenderRow ==
    /\ ppc = "rows"
    /\ IF pj < movie.height
       THEN /\ rendered' = [rendered EXCEPT ![Len(rendered)] =
                              @ \o RowPrinted(movie.frames[pi + 1], movie.width, pj)]
            /\ pj' = pj + 1
            /\ ppc' = ppc
       ELSE /\ ppc' = "sleep"
            /\ pj' = pj
            /\ rendered' = rendered
    /\ UNCHANGED <<movie, pi, perr, slept>>
    /\ UNCHANGED compressVars /\ UNCHANGED quantVars

\* mutant: the delay is the rate itself, not its inverse
FrameDelayInverted(rate) == [num |-> rate, den |-> 1]

\* frame_delay = 1.0 / fps, as the rational 1/fps
FrameDelay(rate) == [num |-> 1, den |-> rate]

\* time.sleep(frame_delay) returns; the for loop moves to the next frame
Sleep ==
    /\ ppc = "sleep"
    /\ slept' = Append(slept, FrameDelay(movie.fps))
    /\ pi' = pi + 1
    /\ ppc' = "loop"
    /\ UNCHANGED <<movie, pj, rendered, perr>>
    /\ UNCHANGED compressVars /\ UNCHANGED quantVars

\* the positions of the player inside its try block
InTry == {"loop", "rows", "sleep"}

\* mutant: no except clause catches the KeyboardInterrupt
AfterInterruptUncaught(at) == "error"

\* where a KeyboardInterrupt leaves the player: caught by the except clause
\* inside the try block, uncaught while input() waits
AfterInterrupt(at) == IF at \in InTry THEN "interrupted" ELSE "error"

\* Ctrl-C: Python raises KeyboardInterrupt at whatever statement is running
Interrupt ==
    /\ ppc \in InTry \cup {"gate"}
    /\ ppc' = AfterInterrupt(ppc)
    /\ perr' = IF AfterInterrupt(ppc) = "error" THEN "KeyboardInterrupt" ELSE perr
    /\ UNCHANGED <<movie, pi, pj, rendered, slept>>
    /\ UNCHANGED compressVars /\ UNCHANGED quantVars

PlayerNext ==
    \/ PlayParse
    \/ PlayStart
    \/ BeginFrame
    \/ RenderRow
    \/ Sleep
    \/ Interrupt

Next == CompressNext \/ PlayerNext

Spec == Init /\ [][Next]_vars

(***************************************************************************)
(* The quantizer on its own: every luminance sample against every charset  *)
(* size.                                                                   *)
(***************************************************************************)
InitQuant ==
    /\ args = [width |-> 1, height |-> 1, charset |-> <<>>, threads |-> 1, frames |-> 0]
    /\ InitCompress
    /\ InitPlayer
    /\ qv \in 0..MaxLum
    /\ qk \in 1..MaxCharsetSize
    /\ qidx = -1

QuantizeSample ==
    /\ qidx = -1
    /\ qidx' = GlyphIndex(qv, qk)
    /\ UNCHANGED <<qv, qk>>
    /\ UNCHANGED compressVars /\ UNCHANGED playerVars

NextQuant == QuantizeSample

SpecQuant == InitQuant /\ [][NextQuant]_vars

(***************************************************************************)
(* The player on its own: run on any container text, well-formed, with     *)
(* frame lines cut short, or with a malformed first line.  The compressor  *)
(* is not running (pc = "done"); the file is whatever is on disk.          *)
(***************************************************************************)
MaxCut == 3
MaxPlayFrames == 2

PlayerHeaders == {
    <<"2", ",", "2", ",", "5", ",", ".", "#">>,
    <<"2", ",", "2", ",", "5", ",", " ", "#">>,
    <<"2", ",", "2", ",", "5">>,
    <<"2", ",", "2">>,
    <<"x", ",", "2", ",", "5", ",", ".", "#">>,
    <<"2", ",", "x", ",", "5", ",", ".", "#">>,
    <<"2", ",", "2", ",", "x", ",", ".", "#">>,
    <<"2", ",", "2", ",", "0", ",", ".", "#">> }

\* complete frame lines of a 2 x 2 grid
PlayerFullLines == { <<".", "#", "|", "#", ".", "|">>, <<" ", "#", "|", "#", " ", "|">> }

\* a frame line that lost its last k characters
Cut(line, k) == SubSeq(line, 1, Len(line) - k)

PlayerLines == {Cut(l, k) : l \in PlayerFullLines, k \in 0..MaxCut}

RECURSIVE FileText(_, _)
\* the text of a file with the given first line and frame lines
FileText(header, lines) ==
    IF lines = <<>> THEN header \o <<"\n">>
    ELSE FileText(header, SubSeq(lines, 1, Len(lines) - 1)) \o lines[Len(lines)] \o <<"\n">>

PlayerFiles ==
    {<<>>} \cup
    UNION { {FileText(h, ls) : ls \in [1..n -> PlayerLines]} :
            h \in PlayerHeaders, n \in 0..MaxPlayFrames }

InitPlayerFile ==
    /\ args = [width |-> 1, height |-> 1, charset |-> <<>>, threads |-> 1, frames |-> 0]
    /\ pc = "done"
    /\ self = NoSelf
    /\ cap = NoCap
    /\ fps = [num |-> 0, den |-> 1]
    /\ total = 0
    /\ frames = <<>>
    /\ eos = FALSE
    /\ futures = <<>>
    /\ ascii_data = <<>>
    /\ wi = 0
    /\ err = ""
    /\ out \in {[exists |-> TRUE, data |-> d] : d \in PlayerFiles}
    /\ InitPlayer
    /\ qv = 0 /\ qk = 0 /\ qidx = -1

SpecPlayer == InitPlayerFile /\ [][PlayerNext]_vars

(***************************************************************************)
(* The pipeline on its own, for the claims about reading, the pool and the *)
(* output file: one grid and charset, up to MaxFrames + 1 frames, and an   *)
(* output path that may already hold a file.                               *)
(***************************************************************************)
OldFile == [exists |-> TRUE, data |-> <<"o", "l", "d", "\n">>]

InitPool ==
    /\ args \in [width : {2}, height : {1}, charset : { <<".", "#">> },
                 threads : 0..MaxThreads, frames : -1..(MaxFrames + 1)]
    /\ pc = "new"
    /\ self = NoSelf
    /\ cap = NoCap
    /\ fps = [num |-> 0, den |-> 1]
    /\ total = 0
    /\ frames = <<>>
    /\ eos = FALSE
    /\ futures = <<>>
    /\ ascii_data = <<>>
    /\ wi = 0
    /\ out \in {NoFile, OldFile}
    /\ err = ""
    /\ InitPlayer
    /\ qv = 0 /\ qk = 0 /\ qidx = -1

SpecPool == InitPool /\ [][CompressNext]_vars

\* The same pipeline with at least one worker, under fair scheduling: the main
\* thread and the worker threads are operating-system threads, so whenever
\* some step of theirs can be taken, one eventually is.
InitFair ==
    /\ InitPool
    /\ args.threads >= 1
    /\ args.frames = MaxFrames
    /\ out = NoFile

SpecFair == InitFair /\ [][CompressNext]_vars /\ WF_vars(CompressNext)

(***************************************************************************)
(* Properties                                                              *)
(***************************************************************************)
\* the container as a reader sees it
OutLines == ReadLines(out.data)
OutFrameLines == Tail(OutLines)
StoredHeader == Split(Strip(OutLines[1]), ",")
StoredRate == ParseInt(StoredHeader[3]).val
HeaderWritten == pc \in {"lines", "done"}

\* the line _process_frame returns for frames[i]
EncodedLine(i) == ProcessFrame(self, frames[i]).val

\* C1: the results compress collects and writes are in submission order: the
\* i-th collected result, and the i-th frame line of the finished container,
\* is the quantization of the i-th frame read.
C1_OutputInSubmissionOrder ==
    /\ \A i \in 1..Len(ascii_data) : ascii_data[i] = EncodedLine(i)
    /\ pc = "done" =>
          /\ Len(OutFrameLines) = Len(frames)
          /\ \A i \in 1..Len(frames) : OutFrameLines[i] = EncodedLine(i) \o <<"\n">>

C1_Witness ==
    /\ pc = "done"
    /\ args.threads >= 2
    /\ Len(frames) >= 2
    /\ EncodedLine(1) # EncodedLine(2)
    /\ Len(OutFrameLines) = 2

FailedJobs == {i \in 1..Len(futures) : futures[i].state = "failed"}
Ended == pc \in {"done", "failed"}

\* C2 as claimed: when one job fails, compress still ends with a container of
\* one line per frame read, the other positions carrying their encoded grid.
C2_Claimed_PlaceholderOnFailure ==
    (Ended /\ Cardinality(FailedJobs) = 1) =>
        /\ out.exists
        /\ Len(OutFrameLines) = Len(frames)
        /\ \A i \in 1..Len(frames) :
              i \notin FailedJobs => OutFrameLines[i] = EncodedLine(i) \o <<"\n">>

\* C2 as the code has it: a failed job makes compress raise; the output file
\* is never opened, no placeholder is collected, and the exception reaches
\* main only after every submitted job has finished.
C2_FailureAbortsBatch ==
    /\ FailedJobs # {} =>
          /\ ~out.exists
          /\ pc \in {"submit", "collect", "raising", "failed"}
          /\ \A i \in 1..Len(ascii_data) : i \notin FailedJobs
    /\ (pc = "failed" /\ err = "JobError") =>
          /\ FailedJobs # {}
          /\ \A i \in 1..Len(futures) : Finished(futures[i])
          /\ \A i \in FailedJobs : Len(ascii_data) < i

C2_Witness ==
    /\ pc = "failed"
    /\ err = "JobError"
    /\ Len(frames) = 2
    /\ FailedJobs = {1}
    /\ futures[2].state = "done"
    /\ ~out.exists

\* C3 as claimed: the stored header rate equals min(5, r).
C3_Claimed_RateIsMin ==
    HeaderWritten => StoredRate * cap.rate.den = Min(MaxFps * cap.rate.den, cap.rate.num)

\* C3 as the code has it: the stored header rate is the integer part of
\* min(5, r); it equals min(5, r) when r >= 5 or r is a whole number.
C3_RateIsTruncatedMin ==
    HeaderWritten =>
        /\ StoredRate = Min(MaxFps, cap.rate.num \div cap.rate.den)
        /\ (cap.rate.num >= MaxFps * cap.rate.den \/ cap.rate.num % cap.rate.den = 0)
              => StoredRate * cap.rate.den = Min(MaxFps * cap.rate.den, cap.rate.num)

C3_Witness ==
    /\ pc = "done"
    /\ cap.rate = [num |-> 5, den |-> 2]
    /\ StoredRate = 2

\* C4: every header compress writes carries a frame rate in 1..5, so the
\* player's frame_delay = 1 / fps is defined.
C4_Claimed_RatePositive ==
    /\ HeaderWritten => StoredRate \in 1..MaxFps
    /\ perr # "ZeroDivisionError"

NumFrameLines == Len(OutFrameLines)

\* C5 as claimed: the number of frame lines written equals min(m, t).
C5_Claimed_CountIsMin ==
    (pc = "done" /\ args.frames >= 0) => NumFrameLines = Min(args.frames, cap.frame_count)

\* C5 as the code has it: the container holds one line per frame read; that
\* is max(0, min(m, t)) frames unless the source signalled end-of-stream
\* first, and then fewer.
C5_CountIsFramesRead ==
    pc = "done" =>
        /\ NumFrameLines = Len(frames)
        /\ NumFrameLines <= Max(0, Min(args.frames, cap.frame_count))
        /\ ~eos => NumFrameLines = Max(0, Min(args.frames, cap.frame_count))

C5_Witness ==
    /\ pc = "done"
    /\ eos
    /\ NumFrameLines = 1
    /\ Min(args.frames, cap.frame_count) = 2

\* C6: for v in 0..255 and k >= 2 the glyph index is floor(v * (k - 1) / 255),
\* lies in 0..k-1, is 0 for v = 0 and k - 1 for v = 255.
C6_IndexInRange ==
    (qidx # -1 /\ qk >= 2) =>
        /\ 255 * qidx <= qv * (qk - 1)
        /\ qv * (qk - 1) < 255 * (qidx + 1)
        /\ qidx \in 0..(qk - 1)
        /\ qv = 0 => qidx = 0
        /\ qv = 255 => qidx = qk - 1

C6_Witness ==
    /\ qk >= 3
    /\ qv = 255
    /\ qidx = qk - 1

\* what the row loop prints of one frame line when it runs to its end
RECURSIVE RowsFrom(_, _, _, _)
RowsFrom(frame, width, height, j) ==
    IF j >= height THEN <<>>
    ELSE RowPrinted(frame, width, j) \o RowsFrom(frame, width, height, j + 1)
FullRender(frame) == RowsFrom(frame, movie.width, movie.height, 0)

\* C7: round trip: for a charset of >= 2 glyphs without '|', the player
\* parses the width, height and rate compress wrote and as many frames as
\* were encoded, and every row it renders is the row of glyphs the encoder
\* emitted for that frame and row.
C7_Claimed_RoundTrip ==
    (self.n_chars >= 2 /\ "|" \notin {self.chars[i] : i \in 1..self.n_chars}
        /\ ppc \notin {"idle", "error"}) =>
        /\ movie.width = self.w
        /\ movie.height = self.h
        /\ movie.fps = StoredRate
        /\ Len(movie.frames) = Len(frames)
        /\ \A i \in 1..Len(rendered) : \A j \in 1..Len(rendered[i]) :
              rendered[i][j] = GlyphRows(self, frames[i])[j]

GlyphsOf(line) == {line[i] : i \in 1..Len(line)}

C9_CollectedIsPrefix ==
    /\ Len(ascii_data) <= Len(futures)
    /\ \A i \in 1..Len(ascii_data) :
          /\ futures[i].state = "done"
          /\ ascii_data[i] = futures[i].result.val
    /\ \A i \in 1..Len(futures) :
          (\E j \in 1..(i - 1) : ~Finished(futures[j])) => Len(ascii_data) < i

C9_Witness ==
    /\ pc = "collect"
    /\ Len(futures) >= 2
    /\ futures[2].state = "done"
    /\ futures[1].state = "running"
    /\ ascii_data = <<>>

\* C10 as claimed: an interrupt takes effect between frames only: when it has
\* stopped playback, every frame whose rendering began was rendered in full.
C10_Claimed_StopsBetweenFrames ==
    ppc = "interrupted" =>
        /\ perr = ""
        /\ \A i \in 1..Len(rendered) : rendered[i] = FullRender(movie.frames[i])

IsPrefix(s, t) == Len(s) <= Len(t) /\ SubSeq(t, 1, Len(s)) = s

InterruptedState ==
    /\ ppc = "interrupted" =>
          /\ perr = ""
          /\ Len(rendered) <= pi + 1
          /\ \A i \in 1..Len(rendered) :
                IF i <= pi THEN rendered[i] = FullRender(movie.frames[i])
                ELSE IsPrefix(rendered[i], FullRender(movie.frames[i]))
    /\ perr = "KeyboardInterrupt" => rendered = <<>>

\* C10 as the code has it: a KeyboardInterrupt inside the playback loop stops
\* playback without error at the statement being run: the frames before the
\* current one are complete, the current one may be partly rendered, and
\* nothing is rendered afterwards.  Only while input() waits is it uncaught.
C10_InterruptStopsAtOnce ==
    /\ []InterruptedState
    /\ [][ppc = "interrupted" => (ppc' = ppc /\ rendered' = rendered)]_vars

C10_Witness ==
    /\ ppc = "interrupted"
    /\ perr = ""
    /\ movie.height = 2
    /\ Len(rendered) = 2
    /\ Len(rendered[2]) = 1

\* a text line without its newline
Chomp(line) == IF line # <<>> /\ line[Len(line)] = "\n" THEN SubSeq(line, 1, Len(line) - 1)
               ELSE line

RECURSIVE NonBlankRaw(_)
\* the frame lines of the container as they stand in the file: every line after
\* the first that is not blank, without its newline
NonBlankRaw(lines) ==
    IF lines = <<>> THEN <<>>
    ELSE (IF Strip(Head(lines)) = <<>> THEN <<>> ELSE <<Chomp(Head(lines))>>)
             \o NonBlankRaw(Tail(lines))
RawFrameLines == NonBlankRaw(Tail(OutLines))

\* the frames whose row loop has run to its end
FramesRenderedFully ==
    IF ppc = "sleep" THEN pi + 1
    ELSE IF ppc \in {"loop", "done"} THEN pi
    ELSE IF ppc \in {"rows", "interrupted"} /\ rendered # <<>> THEN Len(rendered) - 1
    ELSE 0

Started == ppc \in {"loop", "rows", "sleep", "done", "interrupted"}

\* the fields of the first line, as the player splits them
FirstLineFields == Split(Strip(OutLines[1]), ",")

\* C11: a frame line shorter than height * (width + 1) does not make the
\* player fail: of such a line it prints every complete row unchanged, the
\* last available row up to its available length, nothing for rows that start
\* past the end, and goes on to the next frame.
C11_Claimed_TruncatedLineLenient ==
    (Started /\ Len(FirstLineFields) = 4) =>
        /\ perr = ""
        /\ \A i \in 1..Min(pi, Len(rendered)) :
              Len(RawFrameLines[i]) < movie.height * (movie.width + 1) =>
                  rendered[i] = RowsFrom(RawFrameLines[i], movie.width, movie.height, 0)
        /\ ppc = "done" => Len(rendered) = Len(RawFrameLines)

FieldIsInt(i) == ParseInt(FirstLineFields[i]).ok
\* the first of the fields 1..3 that is missing or not an integer, 0 if none
FirstBadField ==
    IF \A i \in 1..3 : i <= Len(FirstLineFields) /\ FieldIsInt(i) THEN 0
    ELSE CHOOSE i \in 1..3 :
            /\ ~(i <= Len(FirstLineFields) /\ FieldIsInt(i))
            /\ \A k \in 1..(i - 1) : k <= Len(FirstLineFields) /\ FieldIsInt(k)

C15_PlaybackSequential ==
    /\ rendered # <<>> => Started
    /\ Started => movie.frames = NonEmptyStripped(Tail(OutLines))
    /\ Len(rendered) <= Len(movie.frames)
    /\ \A i \in 1..Len(rendered) : IsPrefix(rendered[i], FullRender(movie.frames[i]))
    /\ \A i \in 1..FramesRenderedFully : rendered[i] = FullRender(movie.frames[i])
    /\ Len(slept) <= Len(rendered)
    /\ Len(rendered) <= Len(slept) + 1
    /\ ppc \in {"loop", "done"} => Len(slept) = Len(rendered)
    /\ \A i \in 1..Len(slept) : slept[i].num * movie.fps = slept[i].den
    /\ ppc = "done" => Len(rendered) = Len(movie.frames)

C15_Witness ==
    /\ ppc = "rows"
    /\ Len(rendered) = 2
    /\ rendered[1] = << <<".", "#">>, <<"#", ".">> >>
    /\ slept = << [num |-> 1, den |-> 5] >>

AllJobsFinished == \A i \in 1..Len(futures) : Finished(futures[i])

\* C17: with at least one worker the pool does not deadlock: once the executor
\* exists, under fair scheduling every frame's job is submitted and finishes,
\* the collector receives every result (up to a failed one) and compress ends.
C17_PoolTerminates ==
    (pc = "submit") ~>
        (/\ Ended
         /\ Len(futures) = Len(frames)
         /\ AllJobsFinished
         /\ FailedJobs = {} => (pc = "done" /\ Len(ascii_data) = Len(frames)))

C17_Witness ==
    /\ pc = "done"
    /\ args.threads = 1
    /\ Len(frames) = MaxFrames
    /\ Len(ascii_data) = Len(frames)
    /\ AllJobsFinished

\* C13: when the source signals end-of-stream after e < min(maxFrames,
\* totalFrameCount) frames, compress stops reading without error and the
\* container it writes holds exactly e frame lines, the encodings of the e
\* frames the source delivered, in the order it delivered them.
C13_EarlyEndOfStream ==
    eos =>
        /\ Len(cap.delivered) < Min(args.frames, cap.frame_count)
        /\ frames = cap.delivered
        /\ pc = "failed" => err \in {"ValueError", "JobError"}
        /\ pc = "done" =>
              /\ NumFrameLines = Len(cap.delivered)
              /\ \A i \in 1..Len(cap.delivered) :
                    OutFrameLines[i] = ProcessFrame(self, cap.delivered[i]).val \o <<"\n">>

C13_Witness ==
    /\ eos
    /\ pc = "done"
    /\ Len(cap.delivered) = 2
    /\ cap.delivered[1] # cap.delivered[2]
    /\ NumFrameLines = 2
    /\ Min(args.frames, cap.frame_count) = 3

StoredWidth == ParseInt(StoredHeader[1]).val
StoredHeight == ParseInt(StoredHeader[2]).val

\* C14: every frame line in the container agrees with the container's header:
\* it is height rows of width glyphs of the charset, each row followed by
\* '|'; its length is height * (width + 1) and position p holds the delimiter
\* when p mod (width + 1) = width and a glyph of the charset otherwise.
C14_FrameLinesMatchHeader ==
    HeaderWritten =>
        LET w == StoredWidth
            h == StoredHeight
            written == OutFrameLines
            glyphs == GlyphsOf(self.chars) \ {"|"}
        IN  \A i \in 1..Len(written) :
                LET line == Chomp(written[i]) IN
                /\ written[i] # line
                /\ Len(line) = h * (w + 1)
                /\ \A p \in 0..(Len(line) - 1) :
                      IF p % (w + 1) = w
                      THEN line[p + 1] = "|"
                      ELSE line[p + 1] \in glyphs

C14_Witness ==
    /\ pc = "done"
    /\ StoredWidth = 2
    /\ StoredHeight = 2
    /\ self.n_chars = 3
    /\ Len(OutFrameLines) = 2
    /\ OutFrameLines[2] = <<".", "#", "|", "+", ".", "|", "\n">>

\* C16: a failed job does not abort its siblings: when compress raises because
\* of it, every frame's job has been submitted and every other job has run
\* to completion with the result _process_frame gives for its frame.
C16_SiblingsRunToCompletion ==
    (pc = "failed" /\ FailedJobs # {}) =>
        /\ Len(futures) = Len(frames)
        /\ \A i \in 1..Len(futures) :
              /\ Finished(futures[i])
              /\ futures[i].result = ProcessFrame(self, frames[i])
              /\ i \notin FailedJobs => futures[i].state = "done"

C16_Witness ==
    /\ pc = "failed"
    /\ args.threads = 1
    /\ Len(futures) = 3
    /\ FailedJobs = {1}
    /\ futures[2].state = "done"
    /\ futures[3].state = "done"
    /\ ascii_data = <<>>

ReadsBeforeJobs ==
    /\ cap.opened => (futures = <<>> /\ pc \in {"opened", "reading", "release"})
    /\ futures # <<>> => (~cap.opened /\ frames = cap.delivered)

\* C18: the source is touched by the main thread only, one read at a time, and
\* only before the pool exists: every read and the release come before the
\* first submit, and the frame list does not change once jobs exist.
C18_ReadsBeforeProcessing ==
    /\ []ReadsBeforeJobs
    /\ [][cap' # cap =>
            /\ futures = <<>> /\ futures' = <<>>
            /\ pc \in {"constructed", "reading", "release"}
            /\ Len(cap'.delivered) <= Len(cap.delivered) + 1]_vars
    /\ [][futures # <<>> => frames' = frames]_vars

C18_Witness ==
    /\ pc = "submit"
    /\ Len(frames) = 3
    /\ Len(futures) = 1
    /\ futures[1].state = "running"
    /\ ~cap.opened

FailedRunLeavesOutput ==
    /\ pc = "failed" =>
          /\ out \in {NoFile, OldFile}
          /\ err \in {"IOError", "ValueError", "JobError"}
    /\ pc \in {"header", "lines", "done"} => (FailedJobs = {} /\ out.exists)

\* C19: the output is all-or-nothing: the file is opened and written only
\* after every job has finished successfully and been collected, so a run
\* that fails (source not opened, a job failed, worker count not positive)
\* leaves the output path as it was: absent, or with its old contents.
C19_OutputAllOrNothing ==
    /\ []FailedRunLeavesOutput
    /\ [][out' # out =>
            /\ pc \in {"write", "header", "lines"}
            /\ FailedJobs = {}
            /\ AllJobsFinished
            /\ Len(futures) = Len(frames)
            /\ Len(ascii_data) = Len(frames)]_vars

C19_Witness ==
    /\ pc = "failed"
    /\ err = "JobError"
    /\ Len(futures) = 2
    /\ FailedJobs = {2}
    /\ Len(ascii_data) = 1
    /\ out = OldFile

====
